---- MODULE Spec2Model ----
(***************************************************************************)
(* Connection-lifecycle supervisor and telemetry scheduler of the MXChip   *)
(* secure MQTT demo firmware.                                              *)
(*                                                                         *)
(* The repository holds several variants of one sketch.  Three are         *)
(* modelled, each as its own specification over the same variables:        *)
(*   Spec     the DeviceConfig-based firmware   (src/src/main.cpp 208-506) *)
(*   SpecIno  the MutualTLSMQTT.ino example     (src/unnamed/part_002 1-353,*)
(*            the sketch of src/src/main.cpp 1-206 with status flags)      *)
(*   SpecPub  the publish-only variant          (src/unnamed/part_002      *)
(*            355-648)                                                     *)
(* Two more specifications run the DeviceConfig-based firmware from other  *)
(* starting points:                                                        *)
(*   SpecCfg  each of the three connection profiles, with complete or      *)
(*            incomplete settings                                          *)
(*   SpecLive loop() running for ever after the link and the broker have   *)
(*            recovered, with weak fairness of its steps                   *)
(* The network and the broker are the environment: wifiUp is what          *)
(* WiFi.status() == WL_CONNECTED would answer, sockUp what the MQTT        *)
(* client's connected() would answer.                                      *)
(***************************************************************************)
EXTENDS Integers, Naturals, FiniteSets, Sequences

VARIABLES
    pc,             \* position of the single thread of control
    clock,          \* millis(), an unsigned long
    now,            \* loop(): unsigned long now = millis()
    lastPublish,    \* loop(): static unsigned long lastPublish
    lastWiFiCheck,  \* loop(): static unsigned long lastWiFiCheck
    hasWifi,        \* static bool hasWifi
    hasMqtt,        \* static bool hasMqtt
    messageCount,   \* static int messageCount
    wifiAttempts,   \* setup() of the example sketches: int wifiAttempts
    leds,           \* LED_AZURE, LED_USER and the RGB LED as last written
    wifiUp,         \* environment: the WiFi association is up
    sockUp,         \* environment: the MQTT session is up
    publishTopic,   \* configuration: DeviceConfig_GetPublishTopic()
    subscribeTopic, \* configuration: DeviceConfig_GetSubscribeTopic()
    profile,        \* configuration: CONNECTION_PROFILE of the build
    emptyFields,    \* configuration: the settings that are empty in EEPROM
    iter,           \* history: loop() iterations started
    pubCalls,       \* history: calls of mqttClient.publish for telemetry
    pubObs,         \* history: composite state at the last telemetry publish call
    connObs,        \* history: composite state at the last broker connect call
    attempt,        \* history: outcome of the connect attempt of this iteration
    prevAttempt,    \* history: outcome of the connect attempt of the iteration before
    handshakes,     \* history: mqttClient.connect calls of this iteration
    lastPoll,       \* history: what the link poll of this iteration observed
    before,         \* history: composite state when this iteration started
    firstTick,      \* history: what the first scheduler tick decided
    win,            \* history: the scheduler ticks since the last due one
    calls,          \* history: what this iteration called, in order
    subs,           \* history: mqttClient.subscribe calls, on this session and ever
    backoff         \* history: failed connectMQTT() calls in a row, time of the last

vars == << pc, clock, now, lastPublish, lastWiFiCheck, hasWifi, hasMqtt,
           messageCount, wifiAttempts, leds, wifiUp, sockUp, publishTopic,
           subscribeTopic, profile, emptyFields, iter, pubCalls, pubObs,
           connObs, attempt, prevAttempt, handshakes, lastPoll, before,
           firstTick, win, calls, subs, backoff >>

(***************************************************************************)
(* Bounds of the model.                                                    *)
(***************************************************************************)
MaxIter == 4

\* Width of the millisecond clock.  millis() is a 32-bit unsigned long; the
\* model keeps the modular arithmetic at a width the checker's integers hold.
ClockBits == 20

\* Time from one loop() iteration to the next in the runs that follow
\* loop() for ever: longer than both intervals, so that every iteration
\* polls the link and ticks a due publish, and a divisor of the clock's
\* range (2^13 of 2^ClockBits), so that the clock comes round to the values
\* it had.
LiveStep == 8192

(***************************************************************************)
(* Program constants.                                                      *)
(***************************************************************************)
Wrap == 2 ^ ClockBits
WifiCheckInterval == 5000
SendIntervalSec == 5
SetupDelay == 500
IdleDelay == 100
RetryDelay == 2000
LoopDelay == 10
BlinkDelay == 100

\* Time an external call (WiFi, TLS handshake, publish) may take on top of
\* the delays the code asks for: none, or most of an interval.
Blocking == {0, 4990}

\* mqttClient.state() after connect(): 0 connected, -4 timeout,
\* -2 connect failed, 5 not authorized.
ConnectCodes == {0, -4, -2, 5}

Topics == {"", "testtopics/topic1"}

\* CONNECTION_PROFILE: PROFILE_MQTT_USERPASS, PROFILE_MQTT_USERPASS_TLS,
\* PROFILE_MQTT_MTLS.
Profiles == {"USERPASS", "USERPASS_TLS", "MTLS"}

\* The EEPROM settings connectMQTT() reads.
Fields == {"brokerHost", "brokerPort", "deviceId", "devicePassword",
           "caCert", "clientCert", "clientKey"}

Add(t, d) == (t + d) % Wrap
Sub(a, b) == (a - b + Wrap) % Wrap

SendIntervalMs == (SendIntervalSec * 1000) % Wrap

Composite(w, m) ==
    IF w /\ m THEN "Connected"
    ELSE IF w THEN "LinkOnly"
    ELSE IF m THEN "BrokerOnly"
    ELSE "Disconnected"

\* The window of scheduler ticks that starts at a due tick: when it started,
\* the counters before it, whether that cycle could publish at all, and the
\* ticks seen since.
NoWindow == [valid |-> FALSE, at |-> 0, last |-> 0, ticks |-> 0, pubs |-> 0,
             seq |-> 0, able |-> FALSE]

Window(w, t, due, interval, pubs, seq, able) ==
    IF due /\ (~w.valid \/ Sub(t, w.at) >= interval)
    THEN [valid |-> TRUE, at |-> t, last |-> t, ticks |-> 1, pubs |-> pubs,
          seq |-> seq, able |-> able]
    ELSE IF w.valid
    THEN [w EXCEPT !.last = t, !.ticks = IF w.ticks < 3 THEN w.ticks + 1 ELSE 3]
    ELSE w

\* What one loop() iteration has called so far: WiFi.begin() after a lost
\* link, the steps in the order they ran, the composite state in which
\* mqttClient.loop() was called, the calls connectMQTT() made on the
\* transport and the client, the password argument of mqttClient.connect()
\* and the mqttClient.state() a failed connect printed; the characters the
\* telemetry snprintf had to write and the length of the payload handed to
\* mqttClient.publish, what that call answered, the lines printed on
\* Serial, whether the link went down while connectMQTT() was running,
\* the messages the publish-only variant handed to mqttClient.publish, and
\* for a telemetry message printed on Serial the index in brackets and the
\* messageId in its payload (-1: none printed).
NoCalls == [begin |-> FALSE, steps |-> << >>, service |-> "none",
            conn |-> << >>, pass |-> "none", code |-> 0,
            need |-> 0, len |-> 0, sent |-> "none", log |-> {},
            lost |-> FALSE, msgs |-> << >>, idx |-> -1, mid |-> -1]

\* What the firmware keeps of a failure.  Its state is messageCount, hasWifi,
\* hasMqtt, lastPublish and lastWiFiCheck: connectMQTT() prints
\* mqttClient.state() and returns false, the poll that finds the link gone
\* prints a line, and neither stores anything.  There is no lastError.
NoError == [kind |-> "none", code |-> 0]
lastError == NoError

\* The failed connectMQTT() calls in a row up to now and the clock at which
\* the last of them was made.
NoRetry == [fails |-> 0, at |-> 0]

Retried(r, ok, t) == IF ok THEN NoRetry ELSE [fails |-> r.fails + 1, at |-> t]

\* Whether mqttClient.subscribe was called on the session the last connect
\* opened, and whether it was ever called.
NoSubs == [session |-> FALSE, ever |-> FALSE]

Subscribed(sb, issued) == [session |-> issued, ever |-> sb.ever \/ issued]

(***************************************************************************)
(* updateLEDs(): the three outputs as a function of the two flags.         *)
(***************************************************************************)
updateLEDs(w, m) ==
    [azure |-> m,
     user  |-> (w /\ m),
     rgb   |-> IF ~w THEN "red" ELSE IF ~m THEN "yellow" ELSE "off"]

(***************************************************************************)
(* The environment: the link and the session change at any time once the   *)
(* device runs.                                                            *)
(***************************************************************************)
Running == {"setup_mqtt", "loop", "mqtt", "connecting", "publish",
            "ino_wifi", "ino_wifi_check", "ino_mqtt", "ino_loop", "ino_session",
            "pub_wifi", "pub_wifi_check", "pub_mqtt", "pub_loop"}

EnvLink ==
    /\ pc \in Running
    /\ wifiUp' = ~wifiUp
    /\ calls' = IF pc = "connecting" /\ wifiUp
                THEN [calls EXCEPT !.lost = TRUE] ELSE calls
    /\ UNCHANGED << subs, backoff >>
    /\ UNCHANGED << pc, clock, now, lastPublish, lastWiFiCheck, hasWifi,
                    hasMqtt, messageCount, wifiAttempts, leds, sockUp,
                    publishTopic, subscribeTopic, profile, emptyFields, iter, pubCalls, pubObs,
                    connObs, attempt, prevAttempt, handshakes, lastPoll,
                    before, firstTick, win >>

EnvSessionDrop ==
    /\ pc \in Running
    /\ sockUp
    /\ sockUp' = FALSE
    /\ UNCHANGED << subs, backoff >>
    /\ UNCHANGED << pc, clock, now, lastPublish, lastWiFiCheck, hasWifi,
                    hasMqtt, messageCount, wifiAttempts, leds, wifiUp,
                    publishTopic, subscribeTopic, profile, emptyFields, iter, pubCalls, pubObs,
                    connObs, attempt, prevAttempt, handshakes, lastPoll,
                    before, firstTick, win, calls >>

(***************************************************************************)
(* DeviceConfig-based firmware, src/src/main.cpp.                          *)
(***************************************************************************)
Init ==
    /\ pc = "setup_wifi"
    /\ clock = 0
    /\ now = 0
    /\ lastPublish = 0
    /\ lastWiFiCheck = 0
    /\ hasWifi = FALSE
    /\ hasMqtt = FALSE
    /\ messageCount = 0
    /\ wifiAttempts = 0
    /\ leds = [azure |-> FALSE, user |-> FALSE, rgb |-> "off"]
    /\ wifiUp = FALSE
    /\ sockUp = FALSE
    /\ publishTopic \in Topics
    /\ subscribeTopic \in Topics
    /\ profile = "MTLS"
    /\ emptyFields = {}
    /\ iter = 0
    /\ pubCalls = 0
    /\ pubObs = "none"
    /\ connObs = "none"
    /\ attempt = "none"
    /\ prevAttempt = "none"
    /\ handshakes = 0
    /\ lastPoll = "none"
    /\ before = "Disconnected"
    /\ firstTick = "pending"
    /\ win = NoWindow
    /\ calls = NoCalls
    /\ subs = NoSubs
    /\ backoff = NoRetry

\* setup(), up to the WiFi association: WiFi.begin() answers WL_CONNECTED
\* or not; without the link the device halts.
\* Mutant: setup() goes on to the broker after a failed WiFi.begin().
AfterWiFiBegin_GoesOn(ok) == "setup_mqtt"

\* setup(): if (WiFi.begin() != WL_CONNECTED) { ...; while (1) delay(1000); }
AfterWiFiBegin(ok) == IF ok THEN "setup_mqtt" ELSE "halted"

setup_WiFi ==
    /\ pc = "setup_wifi"
    /\ UNCHANGED << subs, backoff >>
    /\ \E ok \in BOOLEAN, blk \in Blocking :
          /\ clock' = Add(clock, SetupDelay + blk)
          /\ wifiUp' = ok
          /\ hasWifi' = ok
          /\ pc' = AfterWiFiBegin(ok)
    /\ UNCHANGED << now, lastPublish, lastWiFiCheck, hasMqtt, messageCount,
                    wifiAttempts, leds, sockUp, publishTopic, subscribeTopic, profile, emptyFields,
                    iter, pubCalls, pubObs, connObs, attempt, prevAttempt,
                    handshakes, lastPoll, before, firstTick, win, calls >>

\* connectMQTT(): wifiClient.stop(), then one mqttClient.connect(); the
\* session is up afterwards iff the broker answered 0 over a live link.
ConnectResult(code) == (code = 0) /\ wifiUp

\* Number of mqttClient.connect() calls one connectMQTT() makes.
ConnectHandshakes == 1

\* mqttClient.state() after the connect: 0, or the reason of the failure
\* (CONNECT_FAILED when the link was not there).
MqttState(code) ==
    IF ConnectResult(code) THEN 0 ELSE IF code = 0 THEN -2 ELSE code

\* Mutant: the client private key is not handed to the transport.
TransportCalls_NoKey(p) ==
    IF p = "USERPASS" THEN << >>
    ELSE IF p = "USERPASS_TLS" THEN << "setTimeout", "setCACert" >>
    ELSE << "setTimeout", "setCACert", "setCertificate" >>

\* connectMQTT(), the #if CONNECTION_PROFILE block: the calls made on
\* wifiClient for profile p.
TransportCalls(p) ==
    IF p = "USERPASS" THEN << >>
    ELSE IF p = "USERPASS_TLS" THEN << "setTimeout", "setCACert" >>
    ELSE << "setTimeout", "setCACert", "setCertificate", "setPrivateKey" >>

\* Mutant: the old socket is not closed before the new connect.
connectMQTT_Calls_NoStop(p) ==
    TransportCalls(p) \o
    << "setServer", "setBufferSize", "setKeepAlive", "setSocketTimeout",
       "connect" >>

\* connectMQTT(): every call it makes on wifiClient and mqttClient, in the
\* order of the code.
connectMQTT_Calls(p) ==
    << "stop" >> \o TransportCalls(p) \o
    << "setServer", "setBufferSize", "setKeepAlive", "setSocketTimeout",
       "connect" >>

\* connectMQTT(): the third argument of mqttClient.connect(), the device
\* password read from EEPROM or the empty string.
PasswordArg(p) ==
    IF p \in {"USERPASS", "USERPASS_TLS"} THEN "devicePassword" ELSE ""

\* connectMQTT(): the EEPROM settings it reads for profile p.
FieldsRead(p) ==
    {"brokerHost", "brokerPort", "deviceId"} \cup
    (IF p \in {"USERPASS", "USERPASS_TLS"} THEN {"devicePassword"} ELSE {}) \cup
    (IF p \in {"USERPASS_TLS", "MTLS"} THEN {"caCert"} ELSE {}) \cup
    (IF p = "MTLS" THEN {"clientCert", "clientKey"} ELSE {})

\* The record of one connectMQTT() call that answered code.
ConnectCalls(c, code) ==
    [c EXCEPT !.conn = connectMQTT_Calls(profile),
              !.pass = PasswordArg(profile),
              !.code = MqttState(code),
              !.log = @ \cup {IF ConnectResult(code) THEN "MQTT connected!"
                              ELSE "MQTT failed, state="}]

\* Mutant: the flag is raised whatever connectMQTT() returned.
HasMqttAfterConnect_Always(ok) == TRUE

\* hasMqtt after connectMQTT() returned ok: true on success, and on failure
\* the false it had before the attempt.
HasMqttAfterConnect(ok) == ok

\* Mutant: the subscription is not renewed after a reconnect.
ResubscribeAfterReconnect_Never(ok, topic) == FALSE

\* loop(): if (connectMQTT()) { ...; if (DeviceConfig_GetSubscribeTopic()[0]
\* != '\0') mqttClient.subscribe(...); }
ResubscribeAfterReconnect(ok, topic) == ok /\ topic # ""

\* setup(): after the connect, if (DeviceConfig_GetSubscribeTopic()[0] !=
\* '\0') { setCallback; subscribe }; a failed connect never gets there.
SubscribeAfterConnect(ok, topic) == ok /\ topic # ""

\* setup(), from SyncTime() to "Ready!".
setup_MQTT ==
    /\ pc = "setup_mqtt"
    /\ \E code \in ConnectCodes :
          LET ok == ConnectResult(code) IN
          /\ clock' = clock
          /\ connObs' = Composite(hasWifi, hasMqtt)
          /\ handshakes' = handshakes + ConnectHandshakes
          /\ attempt' = IF ok THEN "ok" ELSE "fail"
          /\ sockUp' = ok
          /\ hasMqtt' = HasMqttAfterConnect(ok)
          /\ leds' = IF ok THEN updateLEDs(hasWifi, hasMqtt')
                     ELSE [leds EXCEPT !.rgb = "yellow"]
          /\ calls' = ConnectCalls(calls, code)
          /\ subs' = Subscribed(subs, SubscribeAfterConnect(ok, subscribeTopic))
          /\ backoff' = Retried(backoff, ok, clock)
          /\ pc' = IF ok THEN "loop" ELSE "halted"
    /\ UNCHANGED << now, lastPublish, lastWiFiCheck, hasWifi, messageCount,
                    wifiAttempts, wifiUp, publishTopic, subscribeTopic,
                    profile, emptyFields, iter, pubCalls, pubObs,
                    prevAttempt, lastPoll, before, firstTick, win >>

\* Mutant: the comparison inverted.
WifiFlagAfterPoll_Inverted(status) == ~status

\* hasWifi = (WiFi.status() == WL_CONNECTED);
WifiFlagAfterPoll(status) == status

\* Mutant: the broker flag is left alone when the link is lost.
HasMqttOnLinkLoss_Kept == hasMqtt

\* if (!hasWifi) { hasMqtt = false; ... }
HasMqttOnLinkLoss == FALSE

\* Mutant: WiFi.begin() is not called again when the link is lost.
ReassociateOnLoss_Never == FALSE

\* if (!hasWifi) { ...; WiFi.begin(); return; }
ReassociateOnLoss == TRUE

\* Mutant: the iteration goes on to the broker although the link is down.
AfterWiFiCheck_NoReturn(w) == "mqtt"

\* if (!hasWifi) { ... return; } after a poll, if (!hasWifi) { delay(100);
\* return; } otherwise: where the iteration continues.
AfterWiFiCheck(w) == IF w THEN "mqtt" ELSE "loop"

\* Mutant: the poll is timed from the last publish.
WiFiCheckDue_SincePublish(t, last) == Sub(t, lastPublish) >= WifiCheckInterval

\* if (now - lastWiFiCheck >= 5000)
WiFiCheckDue(t, last) == Sub(t, last) >= WifiCheckInterval

\* Mutant: the poll itself sleeps when it finds the link down.
ClockAfterWiFiCheck_PollSleeps(t, poll, w) ==
    IF ~w THEN Add(t, IdleDelay) ELSE t

\* loop(): the poll block has no delay(); if (!hasWifi) { delay(100);
\* return; } after it is reached only when the block was not entered or
\* found the link up.
ClockAfterWiFiCheck(t, poll, w) ==
    IF ~poll /\ ~w THEN Add(t, IdleDelay) ELSE t

\* loop(), from millis() to the end of the WiFi check; n is the number the
\* iteration gets in the history, waits the times that may have passed
\* since the iteration before.
CheckWiFiAfter(n, waits) ==
    /\ pc = "loop"
    /\ UNCHANGED << subs, backoff >>
    /\ \E blk \in waits :
          LET t    == Add(clock, blk)
              poll == WiFiCheckDue(t, lastWiFiCheck)
              w    == IF poll THEN WifiFlagAfterPoll(wifiUp) ELSE hasWifi
              lost == poll /\ ~w
          IN
          /\ now' = t
          /\ iter' = n
          /\ before' = Composite(hasWifi, hasMqtt)
          /\ lastPoll' = IF ~poll THEN "none" ELSE IF wifiUp THEN "up" ELSE "down"
          /\ lastWiFiCheck' = IF poll THEN t ELSE lastWiFiCheck
          /\ hasWifi' = w
          /\ hasMqtt' = IF lost THEN HasMqttOnLinkLoss ELSE hasMqtt
          /\ leds' = IF lost THEN updateLEDs(hasWifi', hasMqtt') ELSE leds
          /\ clock' = ClockAfterWiFiCheck(t, poll, w)
          /\ pc' = AfterWiFiCheck(w)
          /\ calls' = [NoCalls EXCEPT
                          !.begin = lost /\ ReassociateOnLoss,
                          !.steps = IF poll THEN << "poll" >> ELSE << >>]
    /\ attempt' = "none"
    /\ prevAttempt' = attempt
    /\ handshakes' = 0
    /\ UNCHANGED << lastPublish, messageCount, wifiAttempts, wifiUp, sockUp,
                    publishTopic, subscribeTopic, profile, emptyFields,
                    pubCalls, pubObs, connObs, firstTick, win >>

CheckWiFi(n) == CheckWiFiAfter(n, Blocking)

\* One loop() iteration of the bounded run starts.
loop_CheckWiFi ==
    /\ iter < MaxIter
    /\ CheckWiFi(iter + 1)

\* Mutant: the broker flag is not cleared before the reconnect.
HasMqttBeforeReconnect_Stale == hasMqtt

\* else { hasMqtt = false; updateLEDs(); ... } before connectMQTT()
HasMqttBeforeReconnect == FALSE

\* messageCallback(): it prints the topic and the payload and writes
\* nothing else.
messageCallback(log) == log \cup {"[Message Received]"}

\* Mutant: the callback takes a message id.
MessageCountAfterDelivery_Counted(mc, delivered) ==
    IF delivered THEN mc + 1 ELSE mc

\* messageCallback() has no assignment to messageCount (nor to lastPublish
\* or the flags).
MessageCountAfterDelivery(mc, delivered) == mc

\* Mutant: a lost session is noted and the iteration goes on to the publish.
AfterSessionCheck_NoReconnect(connected) == "publish"

\* loop(): if (mqttClient.connected()) {...} goes on to "Publish
\* telemetry"; the else branch calls connectMQTT() first.
AfterSessionCheck(connected) == IF connected THEN "publish" ELSE "connecting"

\* loop(), "Handle MQTT": the session is serviced, or marked down.  Inside
\* mqttClient.loop() a message on the subscribed topic runs the callback.
loop_HandleMQTT ==
    /\ pc = "mqtt"
    /\ UNCHANGED << subs, backoff >>
    /\ IF sockUp
       THEN /\ hasMqtt' = TRUE
            /\ leds' = leds
            /\ \E inbound \in BOOLEAN :
                  LET delivered == inbound /\ subs.session IN
                  /\ calls' = [calls EXCEPT
                                  !.steps = @ \o << "supervise", "service" >>,
                                  !.service = Composite(hasWifi, hasMqtt'),
                                  !.log = IF delivered
                                          THEN messageCallback(@) ELSE @]
                  /\ messageCount' =
                         MessageCountAfterDelivery(messageCount, delivered)
            /\ pc' = AfterSessionCheck(TRUE)
       ELSE /\ hasMqtt' = HasMqttBeforeReconnect
            /\ leds' = updateLEDs(hasWifi, hasMqtt')
            /\ calls' = [calls EXCEPT !.steps = @ \o << "supervise" >>]
            /\ messageCount' = messageCount
            /\ pc' = AfterSessionCheck(FALSE)
    /\ UNCHANGED << clock, now, lastPublish, lastWiFiCheck, hasWifi,
                    wifiAttempts, wifiUp, sockUp, publishTopic,
                    subscribeTopic, profile, emptyFields, iter, pubCalls,
                    pubObs, connObs, attempt, prevAttempt, handshakes,
                    lastPoll, before, firstTick, win >>

\* Mutant: a failed reconnect is not followed by the delay.
ClockAfterReconnect_NoDelay(ok, c) == c

\* loop(): else { delay(2000); return; } after a failed connectMQTT().
ClockAfterReconnect(ok, c) == IF ok THEN c ELSE Add(c, RetryDelay)

\* loop(), the reconnect: if (connectMQTT()) {...} else { delay(2000); return; }
loop_Reconnect ==
    /\ pc = "connecting"
    /\ \E code \in ConnectCodes :
          LET ok == ConnectResult(code) IN
          /\ connObs' = Composite(hasWifi, hasMqtt)
          /\ handshakes' = handshakes + ConnectHandshakes
          /\ attempt' = IF ok THEN "ok" ELSE "fail"
          /\ sockUp' = ok
          /\ hasMqtt' = HasMqttAfterConnect(ok)
          /\ leds' = IF ok THEN updateLEDs(hasWifi, hasMqtt')
                     ELSE [leds EXCEPT !.rgb = "yellow"]
          /\ clock' = ClockAfterReconnect(ok, clock)
          /\ calls' = ConnectCalls(calls, code)
          /\ subs' = Subscribed(subs, ResubscribeAfterReconnect(ok, subscribeTopic))
          /\ backoff' = Retried(backoff, ok, clock)
          /\ pc' = IF ok THEN "publish" ELSE "loop"
    /\ UNCHANGED << now, lastPublish, lastWiFiCheck, hasWifi, messageCount,
                    wifiAttempts, wifiUp, publishTopic, subscribeTopic,
                    profile, emptyFields, iter, pubCalls, pubObs,
                    prevAttempt, lastPoll, before, firstTick, win >>

\* if (now - lastPublish >= (unsigned long)DeviceConfig_GetSendInterval() * 1000)
PublishDue(t, last) == Sub(t, last) >= SendIntervalMs

\* Mutant: the due time is not recorded.
LastPublishAfterDue_Stale(t) == lastPublish

\* lastPublish = now;
LastPublishAfterDue(t) == t

\* publishTelemetry(): what it does to messageCount and whether it reaches
\* mqttClient.publish, given the session, the sensor layer and the topic.
publishTelemetry(connected, jsonOk, topic) ==
    IF ~connected THEN [inc |-> 0, call |-> FALSE]
    ELSE IF ~jsonOk THEN [inc |-> 0, call |-> FALSE]
    ELSE IF topic = "" THEN [inc |-> 1, call |-> FALSE]
    ELSE [inc |-> 1, call |-> TRUE]

\* char payload[700];
PayloadSize == 700

\* Characters the telemetry line needs (message id, device id, timestamp and
\* the sensor JSON of up to 511 characters): the longest that fits the
\* buffer with its terminator, and the shortest that does not.
PayloadNeeds == {PayloadSize - 1, PayloadSize}

\* snprintf(payload, sizeof(payload), ...): the string left in the buffer
\* is cut to sizeof(payload) - 1 characters; the return value, the length
\* needed, is not looked at.
PayloadLen(need) == IF need < PayloadSize THEN need ELSE PayloadSize - 1

\* publishTelemetry(): the lines it prints, given whether
\* mqttClient.publish was reached and what it answered.  Only the branch
\* of a successful publish prints.
PublishLog(call, sent) == IF call /\ sent THEN {"[n] payload"} ELSE {}

\* snprintf(..., messageCount++, ...): the messageId in the payload is the
\* count before the increment, in the firmware and in both sketches.
PayloadMessageId(mc) == mc

\* Serial.printf("[%d] %s\n", messageCount - 1, payload), after the
\* increment: mc is the count after it.
LoggedIndex(mc) == mc - 1

\* The sketches: Serial.print("["); Serial.print(messageCount); after the
\* increment.
Sketch_LoggedIndex(mc) == mc

\* Mutant: a publish that fails marks the session down.
HasMqttAfterPublish_ClearedOnFailure(m, call, sent) == m /\ (call => sent)

\* publishTelemetry() has no assignment to hasMqtt (nor to hasWifi),
\* whatever mqttClient.publish answers.
HasMqttAfterPublish(m, call, sent) == m

\* loop(), "Publish telemetry", to the end of the iteration; sensor is
\* what Sensors.toJson() may answer.
PublishTick(sensor) ==
    /\ pc = "publish"
    /\ UNCHANGED << subs, backoff >>
    /\ \E jsonOk \in sensor, sent \in BOOLEAN, need \in PayloadNeeds :
          LET due == PublishDue(now, lastPublish)
              r   == IF due THEN publishTelemetry(sockUp, jsonOk, publishTopic)
                     ELSE [inc |-> 0, call |-> FALSE]
              shown == r.call /\ sent
          IN
          /\ calls' = [calls EXCEPT
                          !.steps = @ \o << "tick" >>,
                          !.need = IF r.inc = 1 THEN need ELSE 0,
                          !.len = IF r.call THEN PayloadLen(need) ELSE 0,
                          !.sent = IF ~r.call THEN "none"
                                   ELSE IF sent THEN "ok" ELSE "failed",
                          !.log = @ \cup PublishLog(r.call, sent),
                          !.idx = IF shown THEN LoggedIndex(messageCount + r.inc)
                                  ELSE -1,
                          !.mid = IF shown THEN PayloadMessageId(messageCount)
                                  ELSE -1]
          /\ lastPublish' = IF due THEN LastPublishAfterDue(now) ELSE lastPublish
          /\ hasMqtt' = HasMqttAfterPublish(hasMqtt, r.call, sent)
          /\ messageCount' = messageCount + r.inc
          /\ pubCalls' = IF r.call THEN pubCalls + 1 ELSE pubCalls
          /\ pubObs' = IF r.call THEN Composite(hasWifi, hasMqtt) ELSE pubObs
          /\ leds' = IF shown THEN [leds EXCEPT !.rgb = "off"] ELSE leds
          /\ clock' = IF shown THEN Add(clock, BlinkDelay + LoopDelay)
                      ELSE Add(clock, LoopDelay)
          /\ firstTick' = IF firstTick # "pending" THEN firstTick
                          ELSE IF due THEN "fired" ELSE "skipped"
          /\ win' = Window(win, now, due, SendIntervalMs, pubCalls,
                            messageCount,
                            sockUp /\ jsonOk /\ publishTopic # "")
    /\ pc' = "loop"
    /\ UNCHANGED << now, lastWiFiCheck, hasWifi, wifiAttempts,
                    wifiUp, sockUp, publishTopic, subscribeTopic, profile,
                    emptyFields, iter, connObs, attempt, prevAttempt,
                    handshakes, lastPoll, before >>

loop_Publish == PublishTick(BOOLEAN)

Next ==
    \/ setup_WiFi
    \/ setup_MQTT
    \/ loop_CheckWiFi
    \/ loop_HandleMQTT
    \/ loop_Reconnect
    \/ loop_Publish
    \/ EnvLink
    \/ EnvSessionDrop

Spec == Init /\ [][Next]_vars

(***************************************************************************)
(* The firmware built for each connection profile, with complete settings  *)
(* or with the CA certificate or the device password left empty.  setup()  *)
(* prints the settings and goes on to WiFi.begin() and connectMQTT(); it   *)
(* checks none of them.                                                    *)
(***************************************************************************)
EmptyChoices == { {}, {"caCert"}, {"devicePassword"} }

InitCfg ==
    /\ pc = "setup_wifi"
    /\ clock = 0
    /\ now = 0
    /\ lastPublish = 0
    /\ lastWiFiCheck = 0
    /\ hasWifi = FALSE
    /\ hasMqtt = FALSE
    /\ messageCount = 0
    /\ wifiAttempts = 0
    /\ leds = [azure |-> FALSE, user |-> FALSE, rgb |-> "off"]
    /\ wifiUp = FALSE
    /\ sockUp = FALSE
    /\ publishTopic = "testtopics/topic1"
    /\ subscribeTopic = "testtopics/topic1"
    /\ profile \in Profiles
    /\ emptyFields \in EmptyChoices
    /\ iter = 0
    /\ pubCalls = 0
    /\ pubObs = "none"
    /\ connObs = "none"
    /\ attempt = "none"
    /\ prevAttempt = "none"
    /\ handshakes = 0
    /\ lastPoll = "none"
    /\ before = "Disconnected"
    /\ firstTick = "pending"
    /\ win = NoWindow
    /\ calls = NoCalls
    /\ subs = NoSubs
    /\ backoff = NoRetry

SpecCfg == InitCfg /\ [][Next]_vars

(***************************************************************************)
(* The same loop() once the environment has recovered: every link poll     *)
(* finds the link up and the broker accepts every connect.  The run starts *)
(* in a state loop() is in after its first iteration and goes on for ever, *)
(* one iteration every LiveStep milliseconds, the session dropping at any  *)
(* time; Sensors.toJson() answers false whenever it is called (the sensor  *)
(* layer has failed).  The histories start afresh.                         *)
(***************************************************************************)

\* States of Spec between two iterations: connected after an iteration at
\* 500 ms, link found down by the poll at 5490 ms, reconnect failed in the
\* iteration at 500 ms (no session, so the subscribe of setup() is not
\* repeated), publishTelemetry() called at 5490 ms (tick: the LED blink of
\* delay(100) follows when a topic is configured and the message was sent).
LiveStarts ==
    { [clock |-> 510, now |-> 500, poll |-> 0, pub |-> 0, seq |-> 0,
       w |-> TRUE, m |-> TRUE, sock |-> BOOLEAN, sub |-> TRUE, tick |-> FALSE],
      [clock |-> 5490, now |-> 5490, poll |-> 5490, pub |-> 0, seq |-> 0,
       w |-> FALSE, m |-> FALSE, sock |-> BOOLEAN, sub |-> TRUE, tick |-> FALSE],
      [clock |-> 2500, now |-> 500, poll |-> 0, pub |-> 0, seq |-> 0,
       w |-> TRUE, m |-> FALSE, sock |-> {FALSE}, sub |-> FALSE, tick |-> FALSE],
      [clock |-> 5500, now |-> 5490, poll |-> 5490, pub |-> 5490, seq |-> 1,
       w |-> TRUE, m |-> TRUE, sock |-> BOOLEAN, sub |-> TRUE, tick |-> TRUE] }

InitLive ==
    /\ pc = "loop"
    /\ publishTopic \in Topics
    /\ \E s \in LiveStarts :
          /\ clock = IF s.tick /\ publishTopic # ""
                     THEN s.clock + BlinkDelay ELSE s.clock
          /\ subs = Subscribed(Subscribed(NoSubs, TRUE), s.sub)
          /\ now = s.now
          /\ lastWiFiCheck = s.poll
          /\ lastPublish = s.pub
          /\ messageCount = s.seq
          /\ hasWifi = s.w
          /\ hasMqtt = s.m
          /\ sockUp \in s.sock
          /\ leds = updateLEDs(s.w, s.m)
          /\ before = Composite(s.w, s.m)
    /\ wifiAttempts = 0
    /\ wifiUp = TRUE
    /\ subscribeTopic = "testtopics/topic1"
    /\ profile = "MTLS"
    /\ emptyFields = {}
    /\ iter = 0
    /\ pubCalls = 0
    /\ pubObs = "none"
    /\ connObs = "none"
    /\ attempt = "none"
    /\ prevAttempt = "none"
    /\ handshakes = 0
    /\ lastPoll = "none"
    /\ firstTick = "pending"
    /\ win = NoWindow
    /\ calls = NoCalls
    /\ backoff = NoRetry

\* Time that passes between two iterations of the runs that go on for ever.
LiveBlocking == {LiveStep - LoopDelay}

\* What Sensors.toJson() answers in these runs.
LiveSensor == {FALSE}

\* One loop() iteration starts; the iterations are not counted.
Live_CheckWiFi == CheckWiFiAfter(iter, LiveBlocking)

\* The reconnect of loop(), answered by a broker that accepts.
Live_Reconnect ==
    /\ loop_Reconnect
    /\ attempt' = "ok"

\* The scheduler tick, with the sensor layer failing.
Live_Publish == PublishTick(LiveSensor)

LiveProgram ==
    \/ Live_CheckWiFi
    \/ loop_HandleMQTT
    \/ Live_Reconnect
    \/ Live_Publish

NextLive ==
    \/ LiveProgram
    \/ EnvSessionDrop

\* loop() is called again and again by the Arduino core and none of its
\* steps waits for another thread: weak fairness of the program's steps.
SpecLive == InitLive /\ [][NextLive]_vars /\ WF_vars(LiveProgram)

Unused == << lastWiFiCheck, lastPoll, before, firstTick, win, prevAttempt,
             publishTopic, subscribeTopic, profile, emptyFields >>

(***************************************************************************)
(* MutualTLSMQTT.ino with status LEDs, src/unnamed/part_002 1-353 (the     *)
(* sketch of src/src/main.cpp 1-206 plus the hasWifi/hasMqtt flags).       *)
(***************************************************************************)
WifiMaxAttempts == 30
SketchSetupDelay == 1000
WifiWaitDelay == 500
InoPublishInterval == 30000
InoServiceSlice == 100

\* Time the calls of one loop() iteration may take on top of loop(100).
InoBlocking == {0, 29900}

InitIno ==
    /\ pc = "ino_wifi"
    /\ clock = SketchSetupDelay
    /\ now = 0
    /\ lastPublish = 0
    /\ lastWiFiCheck = 0
    /\ hasWifi = FALSE
    /\ hasMqtt = FALSE
    /\ messageCount = 0
    /\ wifiAttempts = 0
    /\ leds = [azure |-> FALSE, user |-> FALSE, rgb |-> "blue"]
    /\ wifiUp \in BOOLEAN
    /\ sockUp = FALSE
    /\ publishTopic = "testtopics/topic1"
    /\ subscribeTopic = "testtopics/topic1"
    /\ profile = "MTLS"
    /\ emptyFields = {}
    /\ iter = 0
    /\ pubCalls = 0
    /\ pubObs = "none"
    /\ connObs = "none"
    /\ attempt = "none"
    /\ prevAttempt = "none"
    /\ handshakes = 0
    /\ lastPoll = "none"
    /\ before = "Disconnected"
    /\ firstTick = "pending"
    /\ win = NoWindow
    /\ calls = NoCalls
    /\ subs = NoSubs
    /\ backoff = NoRetry

\* updateLEDs() of the sketch: WiFi LED, Azure LED and the RGB LED are
\* written from the flags; LED_USER is not written and keeps its level.
Ino_updateLEDs(old, w, m) ==
    [azure |-> m,
     user  |-> old.user,
     wifi  |-> w,
     rgb   |-> IF ~w THEN "red" ELSE IF ~m THEN "yellow" ELSE "green"]

\* blinkUserLed(times): LED_USER HIGH, delay(50), LOW, and delay(50) between
\* two blinks; the time it takes.  LED_USER is LOW when it returns.
BlinkPulse == 50
blinkUserLed(times) == times * BlinkPulse + (times - 1) * BlinkPulse

\* messageHandler(): blinkUserLed(2), RGB cyan, the message on Serial and the
\* display, delay(100), updateLEDs().  The time it takes and the LEDs after.
HandlerHold == 100
Ino_messageHandlerDelay == blinkUserLed(2) + HandlerHold
Ino_messageHandler(old, w, m) ==
    Ino_updateLEDs([old EXCEPT !.user = FALSE, !.rgb = "cyan"], w, m)

\* rgbLed.setColor((wifiAttempts % 2) ? LED_BLUE : LED_OFF) with the macros
\* LED_BLUE = 0, 0, 255 and LED_OFF = 0, 0, 0: the call that is compiled is
\* setColor((wifiAttempts % 2) ? (0, 0, 255) : 0, 0, 0), red or off.
Ino_WaitColor(attempts) == IF attempts % 2 = 1 THEN "red" ELSE "off"

\* while (WiFi.status() != WL_CONNECTED && wifiAttempts < 30) { delay(500); ... }
\* one evaluation of the condition, and the body when it holds.  The body of
\* the sketch with LEDs also writes the RGB LED (blinks); the publish-only
\* variant's body does not.
WaitWiFi(here, next, blinks) ==
    /\ pc = here
    /\ UNCHANGED << subs, backoff >>
    /\ IF ~wifiUp /\ wifiAttempts < WifiMaxAttempts
       THEN /\ clock' = Add(clock, WifiWaitDelay)
            /\ leds' = IF blinks
                       THEN [leds EXCEPT !.rgb = Ino_WaitColor(wifiAttempts)]
                       ELSE leds
            /\ wifiAttempts' = wifiAttempts + 1
            /\ pc' = here
       ELSE /\ clock' = clock
            /\ leds' = leds
            /\ wifiAttempts' = wifiAttempts
            /\ pc' = next
    /\ UNCHANGED << now, lastPublish, hasWifi, hasMqtt, messageCount,
                    wifiUp, sockUp, iter, pubCalls, pubObs, connObs, attempt,
                    handshakes, calls >>
    /\ UNCHANGED Unused

Ino_setup_WaitWiFi == WaitWiFi("ino_wifi", "ino_wifi_check", TRUE)

\* if (WiFi.status() != WL_CONNECTED) { hasWifi = false; ... halt }
\* hasWifi = true; updateLEDs();
\* Mutant: setup() goes on to the broker with the link down.
SketchHaltsWithoutWiFi_Never(up) == FALSE

\* setup() of the sketches, after the wait loop:
\* if (WiFi.status() != WL_CONNECTED) { ...; while (1) { delay(1000); } }
SketchHaltsWithoutWiFi(up) == ~up

Ino_setup_CheckWiFi ==
    /\ pc = "ino_wifi_check"
    /\ UNCHANGED << subs, backoff >>
    /\ hasWifi' = wifiUp
    /\ leds' = Ino_updateLEDs(leds, hasWifi', hasMqtt)
    /\ pc' = IF SketchHaltsWithoutWiFi(wifiUp) THEN "halted" ELSE "ino_mqtt"
    /\ UNCHANGED << clock, now, lastPublish, hasMqtt, messageCount,
                    wifiAttempts, wifiUp, sockUp, iter, pubCalls, pubObs,
                    connObs, attempt, handshakes, calls >>
    /\ UNCHANGED Unused

\* setup(): RGB yellow, connectMutualTLS(); on a non-zero result
\* updateLEDs() and halt, else updateLEDs(), blinkUserLed(3) and subscribe.
Ino_setup_MQTT ==
    /\ pc = "ino_mqtt"
    /\ \E code \in ConnectCodes :
          LET ok == ConnectResult(code)
              lit == Ino_updateLEDs([leds EXCEPT !.rgb = "yellow"],
                                    hasWifi, ok)
          IN
          /\ connObs' = Composite(hasWifi, hasMqtt)
          /\ handshakes' = handshakes + 1
          /\ attempt' = IF ok THEN "ok" ELSE "fail"
          /\ sockUp' = ok
          /\ hasMqtt' = ok
          /\ leds' = IF ok THEN [lit EXCEPT !.user = FALSE] ELSE lit
          /\ clock' = IF ok THEN Add(clock, blinkUserLed(3)) ELSE clock
          /\ subs' = Subscribed(subs, ok)
          /\ backoff' = Retried(backoff, ok, clock)
          /\ pc' = IF ok THEN "ino_loop" ELSE "halted"
    /\ UNCHANGED << now, lastPublish, hasWifi, messageCount,
                    wifiAttempts, wifiUp, iter, pubCalls, pubObs, calls >>
    /\ UNCHANGED Unused

\* if (now - lastPublish >= 30000 || lastPublish == 0)
Ino_PublishDue(t, last) == Sub(t, last) >= InoPublishInterval \/ last = 0

\* loop(), the publish block: when due the payload is built (messageCount++),
\* the RGB LED goes magenta, blinkUserLed(1), and the payload is handed to
\* mqttClient.publish, whatever the connection state; updateLEDs() ends it.
Ino_loop_Publish ==
    /\ pc = "ino_loop"
    /\ UNCHANGED << subs, backoff >>
    /\ iter < MaxIter
    /\ \E blk \in InoBlocking :
          LET t   == Add(clock, blk)
              due == Ino_PublishDue(t, lastPublish)
          IN
          /\ now' = t
          /\ clock' = IF due THEN Add(t, blinkUserLed(1)) ELSE t
          /\ iter' = iter + 1
          /\ lastPublish' = IF due THEN t ELSE lastPublish
          /\ messageCount' = IF due THEN messageCount + 1 ELSE messageCount
          /\ pubCalls' = IF due THEN pubCalls + 1 ELSE pubCalls
          /\ pubObs' = IF due THEN Composite(hasWifi, hasMqtt) ELSE pubObs
          /\ leds' = IF due
                     THEN Ino_updateLEDs([leds EXCEPT !.user = FALSE],
                                         hasWifi, hasMqtt)
                     ELSE leds
    /\ attempt' = "none"
    /\ handshakes' = 0
    /\ calls' = [NoCalls EXCEPT
                    !.steps = << "tick" >>,
                    !.idx = IF messageCount' # messageCount
                            THEN Sketch_LoggedIndex(messageCount') ELSE -1,
                    !.mid = IF messageCount' # messageCount
                            THEN PayloadMessageId(messageCount) ELSE -1]
    /\ pc' = "ino_session"
    /\ UNCHANGED << hasWifi, hasMqtt, wifiAttempts, wifiUp, sockUp, connObs >>
    /\ UNCHANGED Unused

\* loop(), the reconnect: the lines printed before connectMutualTLS() and
\* after it returned 0; nothing is printed when it returned an error.
Ino_ReconnectLog(ok) ==
    {"Connection lost! Reconnecting..."} \cup
    (IF ok THEN {"Reconnected!"} ELSE {})

\* loop(), the rest: if (!mqttClient.isConnected()) one reconnect attempt
\* (updateLEDs() before it; after a success updateLEDs(), blinkUserLed(2) and
\* subscribe), then mqttClient.loop(100), which runs messageHandler() for a
\* message that arrives on the subscription.
Ino_loop_Session ==
    /\ pc = "ino_session"
    /\ \E inbound \in BOOLEAN :
          LET delivered == inbound /\ sockUp' /\ subs'.session
              served(l) == IF delivered
                           THEN Ino_messageHandler(l, hasWifi, hasMqtt')
                           ELSE l
              slice == InoServiceSlice +
                       (IF delivered THEN Ino_messageHandlerDelay ELSE 0)
          IN
          IF sockUp
          THEN /\ UNCHANGED << hasMqtt, sockUp, connObs, attempt,
                               handshakes, subs, backoff >>
               /\ leds' = served(leds)
               /\ clock' = Add(clock, slice)
               /\ calls' = [calls EXCEPT
                               !.steps = @ \o << "supervise", "service" >>,
                               !.service = Composite(hasWifi, hasMqtt)]
          ELSE \E code \in ConnectCodes :
                  LET ok == ConnectResult(code)
                      lit == Ino_updateLEDs(leds, hasWifi, ok)
                  IN
                  /\ connObs' = Composite(hasWifi, FALSE)
                  /\ handshakes' = handshakes + 1
                  /\ attempt' = IF ok THEN "ok" ELSE "fail"
                  /\ sockUp' = ok
                  /\ hasMqtt' = ok
                  /\ subs' = Subscribed(subs, ok)
                  /\ backoff' = Retried(backoff, ok, clock)
                  /\ leds' = served(IF ok THEN [lit EXCEPT !.user = FALSE]
                                    ELSE lit)
                  /\ clock' = Add(clock, (IF ok THEN blinkUserLed(2) ELSE 0)
                                         + slice)
                  /\ calls' = [calls EXCEPT
                                  !.steps = @ \o << "supervise", "service" >>,
                                  !.service = Composite(hasWifi, ok),
                                  !.log = @ \cup Ino_ReconnectLog(ok)]
    /\ pc' = "ino_loop"
    /\ UNCHANGED << now, lastPublish, hasWifi, messageCount, wifiAttempts,
                    wifiUp, iter, pubCalls, pubObs >>
    /\ UNCHANGED Unused

NextIno ==
    \/ Ino_setup_WaitWiFi
    \/ Ino_setup_CheckWiFi
    \/ Ino_setup_MQTT
    \/ Ino_loop_Publish
    \/ Ino_loop_Session
    \/ EnvLink
    \/ EnvSessionDrop

SpecIno == InitIno /\ [][NextIno]_vars

(***************************************************************************)
(* Publish-only variant, src/unnamed/part_002 355-648.                     *)
(***************************************************************************)
PubPublishInterval == 5000

\* Time from the end of one loop() pass to the millis() read of the next,
\* and the time flashBlue() holds the RGB LED blue after a publish.
PubBlocking == {10, 4990}
FlashBlueDelay == 200

InitPub ==
    /\ pc = "pub_wifi"
    /\ clock = SketchSetupDelay
    /\ now = 0
    /\ lastPublish = 0
    /\ lastWiFiCheck = 0
    /\ hasWifi = FALSE
    /\ hasMqtt = FALSE
    /\ messageCount = 0
    /\ wifiAttempts = 0
    /\ leds = [azure |-> FALSE, user |-> FALSE, rgb |-> "off"]
    /\ wifiUp \in BOOLEAN
    /\ sockUp = FALSE
    /\ publishTopic = "testtopics/topic1"
    /\ subscribeTopic = ""
    /\ profile = "MTLS"
    /\ emptyFields = {}
    /\ iter = 0
    /\ pubCalls = 0
    /\ pubObs = "none"
    /\ connObs = "none"
    /\ attempt = "none"
    /\ prevAttempt = "none"
    /\ handshakes = 0
    /\ lastPoll = "none"
    /\ before = "Disconnected"
    /\ firstTick = "pending"
    /\ win = NoWindow
    /\ calls = NoCalls
    /\ subs = NoSubs
    /\ backoff = NoRetry

\* updateLEDs() of the publish-only variant: the RGB LED is written only
\* when one of the flags is down.
Pub_updateLEDs(old, w, m) ==
    [azure |-> m,
     user  |-> (w /\ m),
     rgb   |-> IF ~w THEN "red" ELSE IF ~m THEN "yellow" ELSE old.rgb]

Pub_setup_WaitWiFi == WaitWiFi("pub_wifi", "pub_wifi_check", FALSE)

\* if (WiFi.status() != WL_CONNECTED) { hasWifi = false; ... halt }
\* hasWifi = true; updateLEDs();
Pub_setup_CheckWiFi ==
    /\ pc = "pub_wifi_check"
    /\ UNCHANGED << subs, backoff >>
    /\ hasWifi' = wifiUp
    /\ leds' = Pub_updateLEDs(leds, hasWifi', hasMqtt)
    /\ pc' = IF SketchHaltsWithoutWiFi(wifiUp) THEN "halted" ELSE "pub_mqtt"
    /\ UNCHANGED << clock, now, lastPublish, hasMqtt, messageCount,
                    wifiAttempts, wifiUp, sockUp, iter, pubCalls, pubObs,
                    connObs, attempt, handshakes, calls >>
    /\ UNCHANGED Unused

\* connectMQTT() of the publish-only variant: the RGB LED goes yellow, one
\* mqttClient.connect(); returns 0 or mqttClient.state().
Pub_connectMQTT(code) == IF ConnectResult(code) THEN 0 ELSE IF code = 0 THEN -2 ELSE code

\* connectMQTT() of the publish-only variant: the lines it prints.
Pub_ConnectLog(ok) ==
    {"Connecting to MQTT broker..."} \cup
    (IF ok THEN {"Connected!"} ELSE {"Connection failed! Code:"})

\* Mutant: connectMQTT() publishes nothing.
Pub_ConnectPublishes_None(ok) == << >>

\* connectMQTT() of the publish-only variant, after "Connected!":
\* mqttClient.publish(PUBLISH_TOPIC, "{\"status\":\"connected\"}"), once;
\* a failed connect has returned before.
Pub_ConnectPublishes(ok) == IF ok THEN << "status" >> ELSE << >>

Pub_setup_MQTT ==
    /\ pc = "pub_mqtt"
    /\ UNCHANGED subs
    /\ \E code \in ConnectCodes :
          LET ok == Pub_connectMQTT(code) = 0 IN
          /\ connObs' = Composite(hasWifi, hasMqtt)
          /\ handshakes' = handshakes + 1
          /\ attempt' = IF ok THEN "ok" ELSE "fail"
          /\ sockUp' = ok
          /\ hasMqtt' = ok
          /\ leds' = Pub_updateLEDs([leds EXCEPT !.rgb = "yellow"], hasWifi, hasMqtt')
          /\ backoff' = Retried(backoff, ok, clock)
          /\ calls' = [calls EXCEPT !.log = @ \cup Pub_ConnectLog(ok),
                                    !.msgs = @ \o Pub_ConnectPublishes(ok)]
          /\ pc' = IF ok THEN "pub_loop" ELSE "halted"
    /\ UNCHANGED << clock, now, lastPublish, hasWifi, messageCount,
                    wifiAttempts, wifiUp, iter, pubCalls, pubObs >>
    /\ UNCHANGED Unused

\* if (now - lastPublish >= 5000 || lastPublish == 0)
Pub_PublishDue(t, last) == Sub(t, last) >= PubPublishInterval \/ last = 0

\* Mutant: the socket is checked in every iteration.
Pub_ChecksConnection_Always(due) == TRUE

\* loop(): if (!wifiClient.connected()) stands inside the block of the due
\* check, so the socket is looked at only when a publish is due.
Pub_ChecksConnection(due) == due

\* loop(): when a publish is due, lastPublish = now; the socket is checked
\* and, if it is down, one reconnect is attempted (return on failure);
\* then publishTelemetry(): on a failed publish the RGB LED goes red, on a
\* sent one flashBlue() (blue, delay(200), off) and updateLEDs().
Pub_loop ==
    /\ pc = "pub_loop"
    /\ UNCHANGED subs
    /\ iter < MaxIter
    /\ \E blk \in PubBlocking, code \in ConnectCodes, sent \in BOOLEAN :
          LET t      == Add(clock, blk)
              due    == Pub_PublishDue(t, lastPublish)
              check  == Pub_ChecksConnection(due)
              retry  == check /\ ~sockUp
              ok     == Pub_connectMQTT(code) = 0
              m      == IF retry THEN ok ELSE hasMqtt
              pub    == due /\ (sockUp \/ ok)
          IN
          /\ now' = t
          /\ clock' = IF pub /\ sent THEN Add(t, FlashBlueDelay) ELSE t
          /\ iter' = iter + 1
          /\ lastPublish' = IF due THEN t ELSE lastPublish
          /\ connObs' = IF retry THEN Composite(hasWifi, FALSE) ELSE connObs
          /\ handshakes' = IF retry THEN 1 ELSE 0
          /\ attempt' = IF ~retry THEN "none" ELSE IF ok THEN "ok" ELSE "fail"
          /\ sockUp' = IF retry THEN ok ELSE sockUp
          /\ hasMqtt' = m
          /\ leds' = LET base == IF retry
                                  THEN Pub_updateLEDs([leds EXCEPT !.rgb = "yellow"],
                                                      hasWifi, m)
                                  ELSE leds
                     IN  IF ~pub THEN base
                         ELSE IF sent
                         THEN Pub_updateLEDs([base EXCEPT !.rgb = "off"], hasWifi, m)
                         ELSE [base EXCEPT !.rgb = "red"]
          /\ backoff' = IF retry THEN Retried(backoff, ok, t) ELSE backoff
          /\ messageCount' = IF pub THEN messageCount + 1 ELSE messageCount
          /\ pubCalls' = IF pub THEN pubCalls + 1 ELSE pubCalls
          /\ pubObs' = IF pub THEN Composite(hasWifi, m) ELSE pubObs
          /\ calls' = [NoCalls EXCEPT
                          !.steps = IF check THEN << "tick", "supervise" >>
                                    ELSE << "tick" >>,
                          !.sent = IF ~pub THEN "none"
                                   ELSE IF sent THEN "ok" ELSE "failed",
                          !.log = (IF retry THEN Pub_ConnectLog(ok) ELSE {}) \cup
                                  (IF pub /\ ~sent THEN {"Publish failed!"}
                                   ELSE {}),
                          !.msgs = (IF retry THEN Pub_ConnectPublishes(ok)
                                    ELSE << >>) \o
                                   (IF pub THEN << "telemetry" >> ELSE << >>),
                          !.idx = IF pub THEN Sketch_LoggedIndex(messageCount + 1)
                                  ELSE -1,
                          !.mid = IF pub THEN PayloadMessageId(messageCount)
                                  ELSE -1]
    /\ pc' = "pub_loop"
    /\ UNCHANGED << hasWifi, wifiAttempts, wifiUp >>
    /\ UNCHANGED Unused

NextPub ==
    \/ Pub_setup_WaitWiFi
    \/ Pub_setup_CheckWiFi
    \/ Pub_setup_MQTT
    \/ Pub_loop
    \/ EnvLink
    \/ EnvSessionDrop

SpecPub == InitPub /\ [][NextPub]_vars

(***************************************************************************)
(* The publish-only loop() shortly before millis() rolls over: the device  *)
(* is connected and has just published (flashBlue() has returned), one     *)
(* pass of loop() before the counter returns to 0.                         *)
(***************************************************************************)
InitWrap ==
    /\ pc = "pub_loop"
    /\ \E blk \in PubBlocking :
          /\ clock = Sub(0, blk)
          /\ now = Sub(clock, FlashBlueDelay)
    /\ lastPublish = now
    /\ lastWiFiCheck = 0
    /\ hasWifi = TRUE
    /\ hasMqtt = TRUE
    /\ messageCount = 1
    /\ wifiAttempts = 0
    /\ leds = Pub_updateLEDs([azure |-> TRUE, user |-> TRUE, rgb |-> "off"],
                             TRUE, TRUE)
    /\ wifiUp = TRUE
    /\ sockUp \in BOOLEAN
    /\ publishTopic = "testtopics/topic1"
    /\ subscribeTopic = ""
    /\ profile = "MTLS"
    /\ emptyFields = {}
    /\ iter = 0
    /\ pubCalls = 1
    /\ pubObs = "Connected"
    /\ connObs = "none"
    /\ attempt = "none"
    /\ prevAttempt = "none"
    /\ handshakes = 0
    /\ lastPoll = "none"
    /\ before = "Disconnected"
    /\ firstTick = "pending"
    /\ win = NoWindow
    /\ calls = [NoCalls EXCEPT !.steps = << "tick", "supervise" >>,
                               !.sent = "ok",
                               !.msgs = << "telemetry" >>,
                               !.idx = Sketch_LoggedIndex(1),
                               !.mid = PayloadMessageId(0)]
    /\ subs = NoSubs
    /\ backoff = NoRetry

NextWrap ==
    \/ Pub_loop
    \/ EnvLink
    \/ EnvSessionDrop

SpecWrap == InitWrap /\ [][NextWrap]_vars

(***************************************************************************)
(* The two programs whose loop() does not wait after a failed reconnect,   *)
(* the example sketch and the publish-only variant, side by side: a run    *)
(* is a run of one of them.                                                *)
(***************************************************************************)
InitFire == InitIno \/ InitPub

NextFire ==
    \/ Ino_setup_WaitWiFi
    \/ Ino_setup_CheckWiFi
    \/ Ino_setup_MQTT
    \/ Ino_loop_Publish
    \/ Ino_loop_Session
    \/ Pub_setup_WaitWiFi
    \/ Pub_setup_CheckWiFi
    \/ Pub_setup_MQTT
    \/ Pub_loop
    \/ EnvLink
    \/ EnvSessionDrop

SpecFire == InitFire /\ [][NextFire]_vars

(***************************************************************************)
(* Properties of the DeviceConfig-based firmware (Spec).                   *)
(***************************************************************************)

\* C1: in every reachable state the broker flag implies the link flag:
\* hasMqtt is never true while hasWifi is false.
C1_BrokerImpliesLink == hasMqtt => hasWifi

\* C1 witness: a poll that found the link down in the Connected state has
\* cleared both flags.
C1_Witness ==
    /\ lastPoll = "down"
    /\ before = "Connected"
    /\ ~hasWifi
    /\ ~hasMqtt

\* C2: after a link poll that observed the link down, the composite state
\* is Disconnected, the status LEDs were written from that state, and the
\* iteration has returned without touching the broker.
C2_PollDownIsDisconnected ==
    lastPoll = "down" =>
        /\ Composite(hasWifi, hasMqtt) = "Disconnected"
        /\ leds = updateLEDs(FALSE, FALSE)
        /\ pc = "loop"
        /\ attempt = "none"

\* C2 witness: the reconnect of the previous iteration succeeded, the state
\* was Connected, and this iteration's poll found the link down.
C2_Witness ==
    /\ lastPoll = "down"
    /\ prevAttempt = "ok"
    /\ before = "Connected"
    /\ iter > 1
    /\ Composite(hasWifi, hasMqtt) = "Disconnected"

\* C5 (as claimed): messageCount is incremented exactly when a telemetry
\* publish is handed to the transport, so the two counters agree.
C5_IncrementIffPublish == messageCount = pubCalls

\* C6 (as claimed): once the scheduler was ticked twice within one interval
\* starting at a due tick, exactly one publish was made and messageCount
\* rose by exactly 1.  Stated for a configured publish topic, so that the
\* empty-topic path of publishTelemetry() plays no part.
C6_ExactlyOnePublish ==
    (win.valid /\ win.ticks = 2 /\ publishTopic # "") =>
        /\ pubCalls - win.pubs = 1
        /\ messageCount - win.seq = 1

\* C6 (amended): in the ticks of one interval that start at a due tick, at
\* most one publish is made and messageCount rises by at most 1; both are
\* exactly 1 when, in the due cycle, the client reported connected, the
\* sensor JSON was produced and the publish topic is not empty, and no
\* publish is made otherwise.
C6_AtMostOnePublish ==
    win.valid =>
        /\ pubCalls - win.pubs = (IF win.able THEN 1 ELSE 0)
        /\ messageCount - win.seq \in {0, 1}
        /\ win.able => messageCount - win.seq = 1

\* C6 witness: a second tick, later than the due one and less than an
\* interval after it, has run, and one publish was made.
C6_Witness ==
    /\ win.valid
    /\ win.ticks = 2
    /\ win.last # win.at
    /\ Sub(win.last, win.at) < SendIntervalMs
    /\ pubCalls - win.pubs = 1
    /\ messageCount - win.seq = 1

\* C7 (as claimed): the first scheduler tick in the Connected state finds a
\* publish due, however little time has passed since start.
C7_FirstTickPublishes == firstTick # "skipped"

\* C8: connectMQTT() is invoked only in the LinkOnly state: hasWifi true and
\* hasMqtt false.
C8_ConnectOnlyWhenLinkOnly == connObs \in {"none", "LinkOnly"}

\* C8 witness: a reconnect was attempted from within loop().
C8_Witness ==
    /\ connObs = "LinkOnly"
    /\ iter >= 1
    /\ attempt # "none"
    /\ before = "Connected"

\* C9: a connect attempt makes exactly one broker handshake; after a
\* successful one hasMqtt is true, after a failed one hasMqtt is false and
\* no second handshake follows before the next loop iteration.
C9_OneHandshakePerAttempt ==
    /\ attempt = "ok" => (hasMqtt /\ handshakes = 1)
    /\ attempt = "fail" => (~hasMqtt /\ handshakes = 1)
    /\ attempt = "fail" => pc \in {"loop", "halted"}
    /\ attempt = "none" => handshakes = 0

\* C9 witness: a reconnect in loop() failed and the iteration ended.
C9_Witness ==
    /\ attempt = "fail"
    /\ iter >= 1
    /\ handshakes = 1
    /\ pc = "loop"
    /\ ~hasMqtt

\* C12 (as claimed): a failed broker connect never leaves the device
\* halted, the first attempt in setup() included.
C12_ConnectFailureNotFatal == attempt = "fail" => pc # "halted"

\* C13: a poll that finds the link down calls WiFi.begin() again and leaves
\* loop() running; a poll that finds the link up sets hasWifi and the
\* iteration goes on to the broker; the device halts only in setup(), never
\* after a link loss.
C13_LinkLossRecovered ==
    /\ lastPoll = "down" => (calls.begin /\ ~hasWifi /\ pc = "loop")
    /\ lastPoll = "up" =>
          /\ hasWifi
          /\ \/ pc = "mqtt"
             \/ /\ pc \in {"connecting", "publish", "loop"}
                /\ Len(calls.steps) >= 2
                /\ calls.steps[2] = "supervise"
    /\ pc = "halted" => iter = 0

\* C13 witness: the link was lost, a later poll found it up again, and the
\* same iteration reconnected to the broker and published.
C13_Witness ==
    /\ iter >= 2
    /\ before = "Disconnected"
    /\ lastPoll = "up"
    /\ hasWifi
    /\ attempt = "ok"
    /\ pc = "loop"
    /\ pubObs = "Connected"
    /\ win.valid /\ win.at = now /\ pubCalls > win.pubs

\* C15: messageCount never decreases, and a step that leaves the link flag
\* down makes no publish and leaves messageCount as it was.
C15_SequenceSurvivesOutage ==
    [][/\ messageCount' >= messageCount
       /\ ~hasWifi' => (pubCalls' = pubCalls /\ messageCount' = messageCount)]_vars

\* C15 witness: a publish was made, the link was lost and came back, and
\* the publish after the outage carries on from the count before it.
C15_Witness ==
    /\ before = "Disconnected"
    /\ lastPoll = "up"
    /\ pc = "loop"
    /\ win.valid /\ win.at = now
    /\ win.seq >= 1
    /\ pubCalls = win.pubs + 1
    /\ messageCount = win.seq + 1

\* C20 (as claimed): when a loop() iteration has ended, the Azure LED shows
\* hasMqtt, the User LED shows hasWifi and hasMqtt, and the RGB LED is red
\* or yellow only if the state is not Connected.
C20_LedsAgree ==
    (pc = "loop" /\ iter >= 1) =>
        /\ leds.azure = hasMqtt
        /\ leds.user = (hasWifi /\ hasMqtt)
        /\ leds.rgb \in {"red", "yellow"} => ~(hasWifi /\ hasMqtt)

\* C22: with a subscribe topic configured, every successful connect, in
\* setup() and in loop(), is followed by a subscribe, so in the Connected
\* state a subscribe has been issued on the session; with no subscribe
\* topic, subscribe is never called.
C22_SubscriptionTracksSession ==
    /\ (hasWifi /\ hasMqtt /\ subscribeTopic # "") => subs.session
    /\ (attempt = "ok" /\ subscribeTopic # "") => subs.session
    /\ subscribeTopic = "" => (~subs.ever /\ ~subs.session)

\* C22 witness: the session of setup() was lost and a reconnect in loop()
\* opened a new one, on which the subscribe was issued again.
C22_Witness ==
    /\ subscribeTopic # ""
    /\ iter >= 1
    /\ attempt = "ok"
    /\ before \in {"Connected", "Disconnected"}
    /\ hasWifi /\ hasMqtt
    /\ subs.session

\* C23: when the telemetry line needs more characters than the payload
\* buffer holds, mqttClient.publish is not called in that cycle and an
\* error line is printed, a line other than the three about a connect and
\* a successful publish.
C23_OversizedPayloadSkippedAndReported ==
    calls.need >= PayloadSize =>
        /\ calls.sent = "none"
        /\ calls.len = 0
        /\ calls.log \ {"MQTT connected!", "MQTT failed, state=",
                         "[n] payload"} # {}

\* C24: a telemetry publish that the transport fails to send while the
\* session is up prints a line about the failure, advances messageCount by
\* one, leaves hasWifi and hasMqtt as they were and records the tick in
\* lastPublish as a successful publish does.
C24_FailedPublishLoggedAndCounted ==
    [][ (pc = "publish" /\ calls'.sent = "failed") =>
            /\ calls'.log \ calls.log # {}
            /\ messageCount' = messageCount + 1
            /\ hasWifi' = hasWifi /\ hasMqtt' = hasMqtt
            /\ lastPublish' = now ]_vars

\* C25: when the link went down while connectMQTT() was running in loop()
\* and is down when the attempt resolves, the flags after the attempt are
\* hasWifi = false and hasMqtt = false.
C25_LinkLostInFlightEndsDisconnected ==
    [][ (pc = "connecting" /\ pc' # "connecting" /\ calls.lost /\ ~wifiUp) =>
            (~hasWifi' /\ ~hasMqtt') ]_vars

\* C26: a connectMQTT() call that follows a failed one is made at least
\* the retry delay of 2000 ms after it, and loop() makes at most one call
\* per iteration; the failures in a row are limited by nothing but the
\* number of iterations.
C26_RetriesSpacedByDelay ==
    [][ (pc = "connecting" /\ pc' # "connecting") =>
            /\ backoff.fails > 0 => Sub(clock, backoff.at) >= RetryDelay
            /\ attempt' = "fail" => Sub(clock', clock) = RetryDelay
            /\ handshakes' = handshakes + 1
            /\ backoff'.fails <= iter ]_vars

\* C26 witness: every iteration of loop() so far has ended in a failed
\* reconnect, the last one just now.
C26_Witness ==
    /\ pc = "loop"
    /\ iter = MaxIter
    /\ attempt = "fail"
    /\ backoff.fails = MaxIter

\* C26 as stated: the retries are spaced by the delay and the failed
\* attempts in a row stay below a bound, here the number of iterations
\* loop() is given.
C26_RetriesSpacedAndBounded ==
    [][ (pc = "connecting" /\ pc' # "connecting") =>
            /\ backoff.fails > 0 => Sub(clock, backoff.at) >= RetryDelay
            /\ attempt' = "fail" => Sub(clock', clock) = RetryDelay
            /\ backoff'.fails < MaxIter ]_vars

\* C28: the flags after a poll are a function of the flags before it and
\* of the status it read (up: hasWifi set, hasMqtt kept; down: both
\* cleared), the flags after a connect attempt are a function of the flags
\* before it and of its result (hasWifi kept, hasMqtt = success); neither
\* the poll nor connectMQTT() lets time pass: the only delay around them is
\* the 2000 ms loop() waits after a failed attempt.
C28_SupervisorIsFunctionWithoutDelay ==
    [][ /\ (pc = "loop" /\ iter' = iter + 1 /\ lastPoll' # "none") =>
               /\ << hasWifi', hasMqtt' >> =
                      IF lastPoll' = "up" THEN << TRUE, hasMqtt >>
                      ELSE << FALSE, FALSE >>
               /\ clock' = now'
        /\ (pc = "setup_mqtt" /\ pc' # pc) =>
               /\ << hasWifi', hasMqtt' >> = << hasWifi, attempt' = "ok" >>
               /\ clock' = clock
        /\ (pc = "connecting" /\ pc' # pc) =>
               /\ << hasWifi', hasMqtt' >> = << hasWifi, attempt' = "ok" >>
               /\ clock' = IF attempt' = "ok" THEN clock
                           ELSE Add(clock, RetryDelay) ]_vars

\* C28 witness: in one iteration the poll found the link up and the
\* connect attempt failed; the flags are those of LinkOnly and the clock is
\* the loop's retry delay past the start of the iteration.
C28_Witness ==
    /\ pc = "loop"
    /\ iter >= 1
    /\ lastPoll = "up"
    /\ attempt = "fail"
    /\ hasWifi /\ ~hasMqtt
    /\ clock = Add(now, RetryDelay)

\* C29: hasWifi and hasMqtt start false, and a step changes one of them
\* only if it is the association in setup(), the link poll, a connect
\* attempt or the session check of loop(); a telemetry step, with its LED
\* and display updates, leaves both as they were, and so does the
\* callback for an inbound message, which runs after the session check has
\* set hasMqtt.
C29_FlagsChangedOnlyBySupervisor ==
    /\ (~hasWifi /\ ~hasMqtt)
    /\ [][ /\ (hasWifi' # hasWifi \/ hasMqtt' # hasMqtt) =>
                  \/ pc = "setup_wifi"
                  \/ pc = "loop" /\ lastPoll' # "none"
                  \/ pc \in {"setup_mqtt", "connecting"} /\ attempt' # "none"
                  \/ pc = "mqtt"
           /\ (pc = "publish" /\ pc' = "loop") =>
                  (hasWifi' = hasWifi /\ hasMqtt' = hasMqtt)
           /\ (pc = "mqtt" /\ "[Message Received]" \in calls'.log) =>
                  (hasWifi' = hasWifi /\ hasMqtt') ]_vars

\* C29 witness: in one iteration a message has arrived on the subscribed
\* topic, a telemetry publish has failed, and the state is still Connected.
C29_Witness ==
    /\ pc = "loop"
    /\ "[Message Received]" \in calls.log
    /\ calls.sent = "failed"
    /\ hasWifi /\ hasMqtt
    /\ leds = updateLEDs(TRUE, TRUE)

\* C30: an iteration of loop() reads the link status iff at least the poll
\* interval of 5000 ms has passed since the previous poll, and records the
\* time of the poll; hasWifi changes in loop() only in such an iteration;
\* the poll step writes neither lastPublish nor messageCount.
C30_PollOnOwnInterval ==
    [][ /\ (pc = "loop" /\ iter' = iter + 1) =>
               /\ (lastPoll' # "none") <=>
                      (Sub(now', lastWiFiCheck) >= WifiCheckInterval)
               /\ lastWiFiCheck' = IF lastPoll' # "none" THEN now'
                                   ELSE lastWiFiCheck
               /\ lastPublish' = lastPublish
               /\ messageCount' = messageCount
        /\ (hasWifi' # hasWifi /\ pc # "setup_wifi") =>
               (pc = "loop" /\ lastPoll' # "none") ]_vars

\* C30 witness: a poll has just been made, in an iteration later than the
\* one of the last publish; the time of that publish and the count are as
\* the publish left them.
C30_Witness ==
    /\ pc = "mqtt"
    /\ iter >= 2
    /\ lastPoll = "up"
    /\ lastWiFiCheck = now
    /\ messageCount >= 1
    /\ lastPublish # 0
    /\ lastPublish # now

\* C31: no step of setup() or loop() blocks for ever: whatever WiFi.begin()
\* and connectMQTT() answer, the program never enters a wait it does not
\* leave.
C31_NothingBlocksForever == pc # "halted"

\* C32: the callback for an inbound message runs only inside
\* mqttClient.loop(), the service step of loop(), never in the step of the
\* poll, of a connect attempt or of a publish; the step in which it runs
\* leaves hasWifi, lastPublish and messageCount as they were and hasMqtt at
\* the true the session check wrote before the service.
C32_CallbackOnlyInServiceNoWrites ==
    [][ ("[Message Received]" \in calls'.log
            /\ "[Message Received]" \notin calls.log) =>
            /\ pc = "mqtt" /\ pc' = "publish"
            /\ sockUp
            /\ calls'.steps = calls.steps \o << "supervise", "service" >>
            /\ calls'.conn = << >> /\ calls'.sent = "none"
            /\ hasWifi' = hasWifi
            /\ hasMqtt'
            /\ lastPublish' = lastPublish
            /\ messageCount' = messageCount ]_vars

\* C32 witness: a message has been delivered in the service step of an
\* iteration that follows a publish; the count and the time of that
\* publish stand as the publish left them.
C32_Witness ==
    /\ pc = "publish"
    /\ "[Message Received]" \in calls.log
    /\ iter >= 2
    /\ messageCount = 1
    /\ lastPublish # 0 /\ lastPublish # now
    /\ hasWifi /\ hasMqtt

\* C33: the session check of an iteration runs with hasWifi true; when the
\* client reports no session there, hasMqtt is cleared and connectMQTT()
\* is called next, in the same iteration and before the publish decision:
\* no scheduler tick and no publish call stand between the check and the
\* attempt, and the publish decision is reached with hasMqtt true only.
C33_DropDetectedAndReconnectedBeforePublish ==
    [][ /\ (pc = "mqtt" /\ pc' # pc) => hasWifi
        /\ (pc = "mqtt" /\ pc' # pc /\ ~sockUp) =>
               /\ ~hasMqtt'
               /\ pc' = "connecting"
               /\ iter' = iter
               /\ calls'.sent = "none"
               /\ \A i \in 1 .. Len(calls'.steps) : calls'.steps[i] # "tick"
        /\ (pc = "connecting" /\ pc' # pc) =>
               /\ attempt' \in {"ok", "fail"}
               /\ handshakes' = handshakes + 1
               /\ iter' = iter
               /\ calls'.sent = "none"
               /\ \A i \in 1 .. Len(calls'.steps) : calls'.steps[i] # "tick"
               /\ pc' = "publish" <=> attempt' = "ok"
        /\ pc' = "publish" => hasMqtt' ]_vars

\* C33 witness: the iteration began in state Connected, the client has
\* reported no session, hasMqtt is cleared and the reconnect is about to
\* be made.
C33_Witness ==
    /\ pc = "connecting"
    /\ before = "Connected"
    /\ hasWifi /\ ~hasMqtt
    /\ attempt = "none"
    /\ calls.steps # << >>
    /\ calls.steps[Len(calls.steps)] = "supervise"

\* C34: loop() is entered with hasWifi and hasMqtt both true, after a
\* first connect that succeeded; a device that halted did so in setup(),
\* before any iteration of loop(), with a flag down: after a failed
\* association without any connect attempt, otherwise after a failed first
\* connect.
C34_LoopEnteredConnected ==
    /\ (iter = 0 /\ pc \in {"loop", "pub_loop"}) =>
          (hasWifi /\ hasMqtt /\ attempt = "ok")
    /\ pc = "halted" =>
          /\ iter = 0
          /\ ~hasMqtt
          /\ hasWifi => attempt = "fail"
          /\ ~hasWifi => (attempt = "none" /\ calls.conn = << >>)
    /\ iter >= 1 => (pc # "halted" /\ pc \notin {"setup_wifi", "setup_mqtt"})

\* C34 witness: setup() has ended and the first iteration of loop() has
\* not begun; both flags are up.
C34_Witness ==
    /\ pc = "loop"
    /\ iter = 0
    /\ attempt = "ok"
    /\ hasWifi /\ hasMqtt
    /\ leds = updateLEDs(TRUE, TRUE)

\* C10 (as claimed): lastError holds the most recent failure observed: the
\* status code the broker reported after a connectMQTT() that failed, and
\* LinkLost after a poll that found the link gone which the iteration had
\* started with.
C10_LastErrorHoldsLatestFailure ==
    /\ attempt = "fail" =>
          lastError = [kind |-> "broker", code |-> calls.code]
    /\ (attempt = "none" /\ lastPoll = "down"
           /\ before \in {"Connected", "LinkOnly"}) =>
          lastError = [kind |-> "LinkLost", code |-> 0]

(***************************************************************************)
(* Properties of the builds for the three profiles (SpecCfg).              *)
(***************************************************************************)

\* C14 (as claimed): in the scenario (profile USERPASS_TLS, the broker
\* answers 5) a failed connect cycle ends with the broker flag down and
\* the device running, so that the next cycle of the scenario can follow.
C14_FailedCycleIsFollowedByAnother ==
    (profile = "USERPASS_TLS" /\ attempt = "fail" /\ calls.code = 5) =>
        (~hasMqtt /\ pc = "loop")

\* C16 (as claimed): with a setting that the profile's connect reads left
\* empty, no broker connect is ever attempted.
C16_NoConnectWithMissingField ==
    (FieldsRead(profile) \cap emptyFields # {}) =>
        (connObs = "none" /\ attempt = "none" /\ calls.conn = << >>)

\* C35: every connectMQTT() call, in setup() and in loop(), for every
\* profile, calls wifiClient.stop() first, once, before any transport
\* setting and before the one mqttClient.connect(), which comes last; and
\* it is made only when the client reports no session, so never on top of
\* an open one.
C35_StopBeforeEveryConnect ==
    [][ (pc \in {"setup_mqtt", "connecting"} /\ pc' # pc) =>
            LET c == calls'.conn IN
            /\ ~sockUp
            /\ attempt' \in {"ok", "fail"}
            /\ Len(c) >= 2
            /\ c[1] = "stop"
            /\ c[Len(c)] = "connect"
            /\ \A i \in 2 .. Len(c) : c[i] # "stop"
            /\ \A i \in 1 .. (Len(c) - 1) : c[i] # "connect"
            /\ sockUp' = (attempt' = "ok") ]_vars

\* C35 witness: a reconnect in loop() of the username/password build has
\* closed the socket and opened a new session.
C35_Witness ==
    /\ profile = "USERPASS"
    /\ iter >= 1
    /\ attempt = "ok"
    /\ sockUp
    /\ calls.conn[1] = "stop"
    /\ Len(calls.conn) = 6

\* C19: whenever connectMQTT() has run, the handshake was its last call,
\* and before it the transport was given exactly the material of the
\* profile: nothing for USERPASS, the CA certificate for USERPASS_TLS, the
\* CA certificate, client certificate and client key for MTLS; the device
\* password is passed to the handshake for the two credential profiles only.
C19_TransportMatchesProfile ==
    attempt # "none" =>
        LET c == calls.conn
            material == {"setCACert", "setCertificate", "setPrivateKey"}
            given == {c[i] : i \in 1 .. (Len(c) - 1)} \cap material
        IN
        /\ Len(c) >= 1
        /\ c[Len(c)] = "connect"
        /\ \A i \in 1 .. (Len(c) - 1) : c[i] # "connect"
        /\ profile = "USERPASS" => given = {}
        /\ profile = "USERPASS_TLS" => given = {"setCACert"}
        /\ profile = "MTLS" => given = material
        /\ (calls.pass = "devicePassword") <=>
               (profile \in {"USERPASS", "USERPASS_TLS"})
        /\ calls.pass \in {"devicePassword", ""}

\* C19 witness: a reconnect in loop() of the mutual-TLS build, after the
\* connect of setup().
C19_Witness ==
    /\ profile = "MTLS"
    /\ iter >= 1
    /\ attempt # "none"
    /\ calls.pass = ""
    /\ Len(calls.conn) = 10

(***************************************************************************)
(* Properties of the other variants.                                       *)
(***************************************************************************)

\* The place of a step in the order poll link, advance supervisor, service
\* session, tick scheduler.
StepRank(st) ==
    IF st = "poll" THEN 1 ELSE IF st = "supervise" THEN 2
    ELSE IF st = "service" THEN 3 ELSE 4

\* C17 (as claimed): mqttClient.loop is called only in the Connected state.
C17_ServiceOnlyWhenConnected == calls.service \in {"none", "Connected"}

\* C18 (as claimed): the steps of one loop() iteration run in the order
\* poll link, advance supervisor, service session, tick scheduler.
C18_FixedStepOrder ==
    \A i, j \in 1 .. Len(calls.steps) :
        i < j => StepRank(calls.steps[i]) < StepRank(calls.steps[j])

\* C3 (as claimed): a telemetry publish is handed to the transport only in
\* the Connected state; none is made in Disconnected or LinkOnly.
C3_PublishOnlyWhenConnected == pubObs \in {"none", "Connected"}

\* C4 (as claimed): a loop iteration that ends with the broker flag down
\* has made no publish and has left lastPublish as it was.
C4_DueTimeKeptWhenNotConnected ==
    [][(iter' = iter + 1 /\ ~hasMqtt') =>
          (pubCalls' = pubCalls /\ lastPublish' = lastPublish)]_vars

(***************************************************************************)
(* Recovery (SpecLive).                                                    *)
(***************************************************************************)

\* C11 (as claimed): once every poll finds the link up and the broker
\* accepts every connect, the state becomes Connected and a telemetry
\* message is eventually handed to the transport.
C11_ReconnectsAndPublishes ==
    /\ <>(hasWifi /\ hasMqtt)
    /\ <>(pubCalls > 0)

(***************************************************************************)
(* Properties of the sketch and the publish-only variant (SpecFire).       *)
(***************************************************************************)

\* C37: in setup() of the sketches the wait loop runs at most 30 times,
\* one status poll and one delay each; a device that halted with the link
\* flag down has made no broker connect, and a broker connect is made only
\* after the poll that follows the wait loop reported the link connected.
C37_WiFiWaitBoundedConnectOnlyWithLink ==
    /\ wifiAttempts \in 0 .. 30
    /\ pc \in {"ino_wifi", "pub_wifi", "ino_wifi_check", "pub_wifi_check"} =>
          (attempt = "none" /\ handshakes = 0)
    /\ pc \in {"ino_mqtt", "pub_mqtt"} => hasWifi
    /\ attempt # "none" => hasWifi
    /\ (pc = "halted" /\ ~hasWifi) =>
          (attempt = "none" /\ handshakes = 0 /\ iter = 0)

\* C37 witness: the link stayed down through all 30 waits and the device
\* has halted without a connect attempt.
C37_Witness ==
    /\ pc = "halted"
    /\ wifiAttempts = 30
    /\ ~hasWifi
    /\ attempt = "none"
    /\ connObs = "none"

\* C39: for every telemetry message printed on Serial, the index printed
\* in brackets is the messageId in the payload of that message.
C39_LoggedIndexIsMessageId == calls.idx = calls.mid

\* C27 (as claimed): in the example sketch and in the publish-only variant
\* a reconnect that fails in loop() is logged: a line is printed on Serial
\* after the attempt returned, other than the line the sketch prints
\* before every attempt and the line of a success; after a
\* failed reconnect the next check that finds the session down attempts
\* again (every iteration in the sketch, every due cycle in the
\* publish-only variant); and a cycle that becomes due after a failed
\* reconnect is still taken up: the sketch publishes, the publish-only
\* variant records the cycle, reconnects and publishes if the reconnect
\* succeeded.
C27_FailedReconnectLoggedRetriedNotBlocking ==
    [][ /\ (pc = "ino_session" /\ pc' = "ino_loop" /\ attempt' = "fail") =>
               calls'.log \ Ino_ReconnectLog(TRUE) # {}
        /\ (pc = "pub_loop" /\ iter' = iter + 1 /\ attempt' = "fail") =>
               "Connection failed! Code:" \in calls'.log
        /\ (pc = "ino_session" /\ pc' = "ino_loop" /\ backoff.fails > 0) =>
               attempt' \in {"ok", "fail"}
        /\ (pc = "pub_loop" /\ iter' = iter + 1 /\ backoff.fails > 0
               /\ Pub_PublishDue(now', lastPublish)) =>
               /\ attempt' \in {"ok", "fail"}
               /\ lastPublish' = now'
               /\ attempt' = "ok" => pubCalls' = pubCalls + 1
        /\ (pc = "ino_loop" /\ pc' = "ino_session" /\ backoff.fails > 0
               /\ Ino_PublishDue(now', lastPublish)) =>
               /\ lastPublish' = now'
               /\ pubCalls' = pubCalls + 1 ]_vars

\* C27, the parts that hold: the retry at the next check and the cycles
\* taken up after a failed reconnect, in both programs, and the line the
\* publish-only variant prints for a failed connect.
C27_RetriedNotBlocking ==
    [][ /\ (pc = "pub_loop" /\ iter' = iter + 1 /\ attempt' = "fail") =>
               "Connection failed! Code:" \in calls'.log
        /\ (pc = "ino_session" /\ pc' = "ino_loop" /\ backoff.fails > 0) =>
               attempt' \in {"ok", "fail"}
        /\ (pc = "pub_loop" /\ iter' = iter + 1 /\ backoff.fails > 0
               /\ Pub_PublishDue(now', lastPublish)) =>
               /\ attempt' \in {"ok", "fail"}
               /\ lastPublish' = now'
               /\ attempt' = "ok" => pubCalls' = pubCalls + 1
        /\ (pc = "ino_loop" /\ pc' = "ino_session" /\ backoff.fails > 0
               /\ Ino_PublishDue(now', lastPublish)) =>
               /\ lastPublish' = now'
               /\ pubCalls' = pubCalls + 1 ]_vars

(***************************************************************************)
(* Properties of the publish-only variant (SpecPub).                       *)
(***************************************************************************)

\* C36: in the publish-only variant a connect that succeeds, in setup() or
\* in loop(), publishes the status message once, before the telemetry
\* message of the same cycle; a step without a successful connect
\* publishes no status message; the status message takes no message id:
\* messageCount grows by the telemetry messages alone.
C36_StatusMessageAfterEveryConnect ==
    [][ (pc \in {"pub_mqtt", "pub_loop"} /\ (pc' # pc \/ iter' # iter)) =>
            LET m == calls'.msgs
                n == IF pc = "pub_mqtt" THEN Len(calls.msgs) ELSE 0
                status == {i \in (n + 1) .. Len(m) : m[i] = "status"}
                telemetry == {i \in (n + 1) .. Len(m) : m[i] = "telemetry"}
            IN
            /\ attempt' = "ok" => status = {n + 1}
            /\ attempt' # "ok" => status = {}
            /\ messageCount' = messageCount + Cardinality(telemetry)
            /\ pc = "pub_mqtt" => messageCount' = messageCount ]_vars

\* C36 witness: a due cycle of the publish-only loop() has reconnected,
\* published the status message and then the telemetry message; the count
\* is the number of telemetry messages.
C36_Witness ==
    /\ pc = "pub_loop"
    /\ iter >= 1
    /\ attempt = "ok"
    /\ calls.msgs = << "status", "telemetry" >>
    /\ messageCount = pubCalls
    /\ messageCount >= 1

\* C38: with the millisecond counter wrapping, two iterations of the
\* publish-only loop() that follow one another and both publish telemetry
\* start at least the publish interval apart, the difference taken modulo
\* the counter's range.
C38_PublishesAnIntervalApart ==
    [][ (pc = "pub_loop" /\ iter' = iter + 1
            /\ calls.sent # "none" /\ calls'.sent # "none") =>
            Sub(now', now) >= PubPublishInterval ]_vars

\* C21: mqttClient.loop is never called, and the socket is checked and a
\* reconnect attempted only in a loop() iteration in which a publish is due
\* (the iteration that set lastPublish = now).
C21_NoServiceCheckOnlyWhenDue ==
    /\ calls.service = "none"
    /\ \A i \in 1 .. Len(calls.steps) : calls.steps[i] # "service"
    /\ iter >= 1 =>
          /\ (\E i \in 1 .. Len(calls.steps) : calls.steps[i] = "supervise")
                => lastPublish = now
          /\ attempt # "none" => lastPublish = now
          /\ handshakes > 0 => lastPublish = now

\* C21 witness: the socket has dropped, and an iteration in which no
\* publish was due has ended without looking at it: the flag is still up
\* and no reconnect was made.
C21_Witness ==
    /\ iter >= 2
    /\ pc = "pub_loop"
    /\ ~sockUp
    /\ hasMqtt
    /\ lastPublish # now
    /\ attempt = "none"
    /\ calls.steps = << "tick" >>

TypeOK ==
    /\ pc \in Running \cup {"setup_wifi", "halted"}
    /\ clock \in 0 .. (Wrap - 1)
    /\ now \in 0 .. (Wrap - 1)
    /\ hasWifi \in BOOLEAN
    /\ hasMqtt \in BOOLEAN
    /\ messageCount \in Nat
    /\ wifiAttempts \in 0 .. WifiMaxAttempts
    /\ wifiUp \in BOOLEAN
    /\ sockUp \in BOOLEAN
    /\ subs \in [session : BOOLEAN, ever : BOOLEAN]
    /\ backoff.fails \in Nat
    /\ backoff.at \in 0 .. (Wrap - 1)
    /\ calls.len \in 0 .. (PayloadSize - 1)
    /\ calls.sent \in {"none", "ok", "failed"}
    /\ calls.lost \in BOOLEAN

====
